---- MODULE Spec2Model ----
(***************************************************************************)
(* PageRank engine of pagerank.py: transition_model, sample_pagerank,      *)
(* iterate_pagerank and crawl_origin.                                      *)
(*                                                                         *)
(* Pages are the integers 1..k (the code's file names).  A corpus is a     *)
(* function from its pages to sets of pages, as crawl() hands it over.     *)
(* Python floats are modelled as exact rationals <<num, den>> in lowest    *)
(* terms with den > 0, so that equality of two values is equality of the   *)
(* pairs; floating-point rounding is not modelled.                         *)
(***************************************************************************)
EXTENDS Integers, FiniteSets, Sequences, TLC

VARIABLES
    corpus,            \* the caller's graph object (a dict, passed by reference)
    corpus0,           \* history: the graph as it was when the call was made
    damping_factor,    \* argument, a rational
    n,                 \* argument of sample_pagerank
    fn,                \* entry point called: "sample" or "iterate"
    pc,                \* position inside the called function
    status,            \* "running", "returned" or "raised"
    error,             \* exception raised, "" when none
    result,            \* the returned dict when status = "returned"
    pagerank,          \* local dict `pagerank`
    pagerank_working,  \* local dict `pagerank_working` (iterate_pagerank)
    links_to_page,     \* local dict `links_to_page` (iterate_pagerank)
    todo,              \* pages the `for pages in corpus` loop of a round has left
    prev,              \* history: `pagerank` as it stood when the round began
    rounds,            \* completed passes of the `while True` loop
    sample_start,      \* local `sample_start` (sample_pagerank)
    next_page_model,   \* local `next_page_model` (sample_pagerank)
    i                  \* loop index of `for i in range(n)`

vars == <<corpus, corpus0, damping_factor, n, fn, pc, status, error, result,
          pagerank, pagerank_working, links_to_page, todo, prev, rounds,
          sample_start, next_page_model, i>>

(***************************************************************************)
(* Bounds of the model.                                                    *)
(***************************************************************************)
MaxNodes == 2
MaxSamples == 3
MaxRounds == 6

(***************************************************************************)
(* Exact rational arithmetic.                                              *)
(***************************************************************************)
\* Operands are bound through a singleton set, {F(x) : x \in {e}}, so that e
\* is evaluated once however often the body uses it.
Abs(x) == IF x < 0 THEN -x ELSE x

RECURSIVE GCD(_, _)
GCD(a, b) ==
    IF b = 0 THEN a
    ELSE CHOOSE g \in {GCD(y, x % y) : x \in {a}, y \in {b}} : TRUE

NormV(num, den) ==
    CHOOSE r \in {<<(IF den < 0 THEN -num ELSE num) \div g, Abs(den) \div g>> :
                      g \in {GCD(Abs(num), Abs(den))}} : TRUE
\* num/den in lowest terms with a positive denominator
Norm(num, den) == CHOOSE r \in {NormV(x, y) : x \in {num}, y \in {den}} : TRUE

Zero == <<0, 1>>
One == <<1, 1>>

AddV(a, b) ==
    CHOOSE r \in {Norm(a[1] * (l \div a[2]) + b[1] * (l \div b[2]), l) :
                      l \in {(a[2] \div GCD(a[2], b[2])) * b[2]}} : TRUE
RAdd(a, b) == CHOOSE r \in {AddV(x, y) : x \in {a}, y \in {b}} : TRUE

RNeg(a) == CHOOSE r \in {<<-x[1], x[2]>> : x \in {a}} : TRUE
RSub(a, b) == RAdd(a, RNeg(b))
RAbs(a) == CHOOSE r \in {<<Abs(x[1]), x[2]>> : x \in {a}} : TRUE
RMul(a, b) == CHOOSE r \in {Norm(x[1] * y[1], x[2] * y[2]) : x \in {a}, y \in {b}} : TRUE
\* a / k for an integer k # 0
RDivInt(a, k) == CHOOSE r \in {Norm(x[1], x[2] * k) : x \in {a}} : TRUE
RGt(a, b) == RSub(a, b)[1] > 0
\* a if a > b, else b
RMax(a, b) == CHOOSE r \in {IF RGt(x, y) THEN x ELSE y : x \in {a}, y \in {b}} : TRUE
\* a <= 1/m for a >= 0 and an integer m > 0 (a[1] * m <= a[2], without the product)
RLeqInv(a, m) == \E x \in {a} : x[1] <= x[2] \div m

RECURSIVE RSum(_, _)
\* sum of f[x] over the finite set S
RSum(f, S) ==
    IF S = {} THEN Zero
    ELSE LET x == CHOOSE y \in S : TRUE
         IN  RAdd(f[x], RSum(f, S \ {x}))

(***************************************************************************)
(* Inputs.                                                                 *)
(***************************************************************************)
\* every graph without dangling links on the pages 1..k (links of a page to
\* itself included), k = 0 being the empty corpus
Corpora == UNION {[1..k -> SUBSET (1..k)] : k \in 0..MaxNodes}

\* 0.0, 1.0 and a negative value, and two values inside (0, 1)
Dampings == {<<0, 1>>, <<1, 1>>, <<-1, 4>>, <<1, 4>>, <<1, 10>>}

SampleCounts == -1..MaxSamples

ValidDamping(d) == d[1] > 0 /\ d[1] < d[2]

Pages == DOMAIN corpus

(***************************************************************************)
(* transition_model(corpus, page, damping_factor)                          *)
(***************************************************************************)
\* transition_model with the share of the links divided by the size of the
\* corpus instead of the number of links of the page
transition_model_by_corpus(c, page, d) ==
    LET N == Cardinality(DOMAIN c)
        link_count == Cardinality(c[page])
        base == RDivInt(RSub(One, d), N)
    IN  [q \in DOMAIN c |->
            IF link_count < 1
            THEN RAdd(base, RDivInt(d, N))
            ELSE IF q \in c[page]
                 THEN RAdd(base, RDivInt(d, N))
                 ELSE base]

transition_model(c, page, d) ==
    LET N == Cardinality(DOMAIN c)
        link_count == Cardinality(c[page])
        base == RDivInt(RSub(One, d), N)
    IN  [q \in DOMAIN c |->
            IF link_count < 1
            THEN RAdd(base, RDivInt(d, N))
            ELSE IF q \in c[page]
                 THEN RAdd(base, RDivInt(d, link_count))
                 ELSE base]

\* random.choices(list(model), weights=...)[0]: the bisection of the cumulative
\* weights returns an index j with cum[j-1] <= x < cum[j], a page of positive
\* weight
Choices(model) == {q \in DOMAIN model : model[q][1] > 0}

(***************************************************************************)
(* crawl_origin(corpus)                                                    *)
(***************************************************************************)
\* crawl_origin that never lists a page as its own origin
crawl_origin_no_self(c) ==
    [page \in DOMAIN c |->
        {origin \in DOMAIN c : page \in c[origin] /\ origin # page}]

crawl_origin(c) ==
    [page \in DOMAIN c |-> {origin \in DOMAIN c : page \in c[origin]}]

\* iterate_pagerank without the rewriting of sinks
NormalizeSinksSkipped(c) == c

\* lines 134-136 of iterate_pagerank: a page without links gets a link to
\* every page of the corpus
NormalizeSinks(c) ==
    [page \in DOMAIN c |-> IF c[page] = {} THEN DOMAIN c ELSE c[page]]

Init ==
    /\ corpus \in Corpora
    /\ corpus0 = corpus
    /\ damping_factor \in Dampings
    /\ fn \in {"sample", "iterate"}
    /\ n \in IF fn = "sample" THEN SampleCounts ELSE {0}
    /\ pc = "setup"
    /\ status = "running"
    /\ error = ""
    /\ result = <<>>
    /\ pagerank = <<>>
    /\ pagerank_working = <<>>
    /\ links_to_page = <<>>
    /\ todo = {}
    /\ prev = <<>>
    /\ rounds = 0
    /\ sample_start = 0
    /\ next_page_model = <<>>
    /\ i = 0

(***************************************************************************)
(* sample_pagerank(corpus, damping_factor, n)                              *)
(***************************************************************************)
\* lines 90-96: zeroed counters (whole numbers, kept as n/1), then random.choice(list(corpus)), which
\* raises IndexError on an empty list
SampleSetup ==
    /\ fn = "sample" /\ pc = "setup"
    /\ pagerank' = [p \in Pages |-> Zero]
    /\ IF Pages = {}
       THEN /\ status' = "raised" /\ error' = "IndexError" /\ pc' = "done"
            /\ UNCHANGED sample_start
       ELSE /\ sample_start' \in Pages
            /\ pc' = "loop"
            /\ UNCHANGED <<status, error>>
    /\ i' = 0
    /\ UNCHANGED <<corpus, corpus0, damping_factor, n, fn, result,
                   pagerank_working, links_to_page, todo, prev, rounds,
                   next_page_model>>

\* line 100, entered while range(n) has an index left
SampleModel ==
    /\ fn = "sample" /\ pc = "loop" /\ i < n
    /\ next_page_model' = transition_model(corpus, sample_start, damping_factor)
    /\ pc' = "choose"
    /\ UNCHANGED <<corpus, corpus0, damping_factor, n, fn, status, error,
                   result, pagerank, pagerank_working, links_to_page, todo,
                   prev, rounds, sample_start, i>>

\* lines 103-110
SampleChoose ==
    /\ fn = "sample" /\ pc = "choose"
    /\ \E next_page \in Choices(next_page_model) :
        /\ pagerank' = [pagerank EXCEPT ![next_page] = RAdd(@, One)]
        /\ sample_start' = next_page
    /\ i' = i + 1
    /\ pc' = "loop"
    /\ UNCHANGED <<corpus, corpus0, damping_factor, n, fn, status, error,
                   result, pagerank_working, links_to_page, todo, prev,
                   rounds, next_page_model>>

\* lines 113-116, once range(n) is exhausted (at once when n <= 0):
\* pagerank[page] / n raises ZeroDivisionError for n = 0
SampleFinish ==
    /\ fn = "sample" /\ pc = "loop" /\ i >= n
    /\ IF n = 0 /\ Pages # {}
       THEN /\ status' = "raised" /\ error' = "ZeroDivisionError"
            /\ UNCHANGED <<pagerank, result>>
       ELSE /\ pagerank' = [p \in Pages |-> RDivInt(pagerank[p], n)]
            /\ result' = pagerank'
            /\ status' = "returned"
            /\ error' = error
    /\ pc' = "done"
    /\ UNCHANGED <<corpus, corpus0, damping_factor, n, fn, pagerank_working,
                   links_to_page, todo, prev, rounds, sample_start,
                   next_page_model, i>>

(***************************************************************************)
(* iterate_pagerank(corpus, damping_factor)                                *)
(***************************************************************************)
\* lines 146-151 for one page: the new rank of `page` computed from `source`
NewRank(page, source) ==
    LET first_sum == RDivInt(RSub(One, damping_factor), Cardinality(Pages))
        terms == [origin \in links_to_page[page] |->
                     RDivInt(source[origin], Cardinality(corpus[origin]))]
        second_sum == RSum(terms, links_to_page[page])
    IN  RAdd(first_sum, RMul(damping_factor, second_sum))

RECURSIVE MaxDiffOver(_, _, _)
MaxDiffOver(old, new, S) ==
    IF S = {} THEN Zero
    ELSE LET page == CHOOSE y \in S : TRUE
         IN  RMax(RAbs(RSub(old[page], new[page])), MaxDiffOver(old, new, S \ {page}))

\* lines 154-157
MaxDiff(old, new) == MaxDiffOver(old, new, DOMAIN new)

\* the denominator of the threshold 0.001 of line 159
ThresholdDen == 1000

\* lines 128-139: initial ranks, sinks rewritten in the caller's dict, reverse index
IterSetup ==
    /\ fn = "iterate" /\ pc = "setup"
    /\ pagerank' = [p \in Pages |-> Norm(1, Cardinality(Pages))]
    /\ corpus' = NormalizeSinks(corpus)
    /\ links_to_page' = crawl_origin(corpus')
    /\ pc' = "round"
    /\ UNCHANGED <<corpus0, damping_factor, n, fn, status, error, result,
                   pagerank_working, todo, prev, rounds, sample_start,
                   next_page_model, i>>

\* line 143: pagerank_working = copy.deepcopy(pagerank)
RoundBegin ==
    /\ fn = "iterate" /\ pc = "round"
    /\ pagerank_working' = pagerank
    /\ prev' = pagerank
    /\ todo' = Pages
    /\ pc' = "page"
    /\ UNCHANGED <<corpus, corpus0, damping_factor, n, fn, status, error,
                   result, pagerank, links_to_page, rounds, sample_start,
                   next_page_model, i>>

\* lines 145-151 without the deepcopy of line 143: both names denote one dict,
\* so a page is computed from the values already written in this pass
UpdatePageInPlace ==
    /\ fn = "iterate" /\ pc = "page" /\ todo # {}
    /\ LET page == CHOOSE p \in todo : \A q \in todo : p <= q
       IN  /\ pagerank_working' =
                  [pagerank_working EXCEPT ![page] = NewRank(page, pagerank_working)]
           /\ todo' = todo \ {page}
    /\ UNCHANGED <<corpus, corpus0, damping_factor, n, fn, pc, status, error,
                   result, pagerank, links_to_page, prev, rounds, sample_start,
                   next_page_model, i>>

\* lines 145-151 for the next page of the corpus, the pages taken in the order
\* of the dict (here ascending); a division by an empty link
\* set raises ZeroDivisionError
UpdatePage ==
    /\ fn = "iterate" /\ pc = "page" /\ todo # {}
    /\ LET page == CHOOSE p \in todo : \A q \in todo : p <= q
       IN  IF \E origin \in links_to_page[page] : corpus[origin] = {}
           THEN /\ status' = "raised" /\ error' = "ZeroDivisionError"
                /\ pc' = "done"
                /\ UNCHANGED <<pagerank_working, todo>>
           ELSE /\ pagerank_working' =
                       [pagerank_working EXCEPT ![page] = NewRank(page, pagerank)]
                /\ todo' = todo \ {page}
                /\ UNCHANGED <<status, error, pc>>
    /\ UNCHANGED <<corpus, corpus0, damping_factor, n, fn, result, pagerank,
                   links_to_page, prev, rounds, sample_start, next_page_model, i>>

\* lines 154-160 and 163: max_diff <= 0.001, break, return pagerank
RoundConverged ==
    /\ fn = "iterate" /\ pc = "page" /\ todo = {}
    /\ RLeqInv(MaxDiff(pagerank, pagerank_working), ThresholdDen)
    /\ result' = pagerank
    /\ status' = "returned"
    /\ pc' = "done"
    /\ UNCHANGED <<corpus, corpus0, damping_factor, n, fn, error, pagerank,
                   pagerank_working, links_to_page, todo, prev, rounds,
                   sample_start, next_page_model, i>>

\* lines 154-160 without the assignment of line 161: the next pass starts from
\* the same vector again
RoundContinueNoAssign ==
    /\ fn = "iterate" /\ pc = "page" /\ todo = {}
    /\ ~RLeqInv(MaxDiff(pagerank, pagerank_working), ThresholdDen)
    /\ rounds < MaxRounds
    /\ rounds' = rounds + 1
    /\ pc' = "round"
    /\ UNCHANGED <<corpus, corpus0, damping_factor, n, fn, status, error,
                   result, pagerank, pagerank_working, links_to_page, todo,
                   prev, sample_start, next_page_model, i>>

\* lines 154-161: max_diff > 0.001, pagerank = pagerank_working, next pass
RoundContinue ==
    /\ fn = "iterate" /\ pc = "page" /\ todo = {}
    /\ ~RLeqInv(MaxDiff(pagerank, pagerank_working), ThresholdDen)
    /\ rounds < MaxRounds
    /\ pagerank' = pagerank_working
    /\ rounds' = rounds + 1
    /\ pc' = "round"
    /\ UNCHANGED <<corpus, corpus0, damping_factor, n, fn, status, error,
                   result, pagerank_working, links_to_page, todo, prev,
                   sample_start, next_page_model, i>>

Next ==
    \/ SampleSetup
    \/ SampleModel
    \/ SampleChoose
    \/ SampleFinish
    \/ IterSetup
    \/ RoundBegin
    \/ UpdatePage
    \/ RoundConverged
    \/ RoundContinue

Spec == Init /\ [][Next]_vars

\* the interpreter keeps executing the call until it returns or raises
FairSpec == Spec /\ WF_vars(Next)

(***************************************************************************)
(* Properties.                                                             *)
(***************************************************************************)
IterateReturned == fn = "iterate" /\ status = "returned"
Sinks0 == {s \in DOMAIN corpus0 : corpus0[s] = {}}

\* C1: when iterate_pagerank returns, the caller's graph is what it was
\* before the call: every page has the link set it had, a sink is still a sink.
C1_CallerGraphUnchanged == IterateReturned => corpus = corpus0

\* C2: iterate_pagerank returns the vector newly computed in the pass whose
\* maximum change is <= 0.001, not the vector of the pass before.
C2_ReturnsNewVector == IterateReturned => result = pagerank_working

\* C3: on a non-empty graph, a call with a damping factor of 0.0, of 1.0 or
\* negative returns no rank vector, from either entry point.
C3_InvalidDampingReturnsNothing ==
    (DOMAIN corpus0 # {} /\ ~ValidDamping(damping_factor)) => status # "returned"

\* C4: iterate_pagerank never returns a rank vector for an empty graph.
C4_EmptyGraphReturnsNothing ==
    (fn = "iterate" /\ DOMAIN corpus0 = {}) => status # "returned"

\* C5: sample_pagerank with n <= 0 returns no rank vector, for a non-empty
\* graph and a damping factor in (0,1).
C5_NonPositiveCountReturnsNothing ==
    (fn = "sample" /\ n <= 0 /\ DOMAIN corpus0 # {} /\ ValidDamping(damping_factor))
        => status # "returned"

\* C6: for a non-empty graph, a damping factor in (0,1) and n >= 1, the mapping
\* either entry point returns has exactly the pages of the graph as keys and
\* values that sum to 1; in the sampler the visit counters sum to the number
\* of steps taken, so to n after n steps.
C6_RankVectorSumsToOne ==
    (DOMAIN corpus0 # {} /\ ValidDamping(damping_factor)) =>
        /\ (fn = "sample" /\ pc \in {"loop", "choose"}) =>
               /\ DOMAIN pagerank = DOMAIN corpus0
               /\ RSum(pagerank, DOMAIN pagerank) = <<i, 1>>
        /\ (status = "returned" /\ (fn = "sample" => n >= 1)) =>
               /\ DOMAIN result = DOMAIN corpus0
               /\ RSum(result, DOMAIN result) = One
               /\ fn = "sample" => i = n

\* a solver run on a graph with a sink that took several passes and returned
C6_Witness ==
    /\ IterateReturned /\ ValidDamping(damping_factor)
    /\ Sinks0 # {} /\ rounds >= 2
    /\ \E p, q \in DOMAIN result : result[p] # result[q]

\* C7: for a page p of a non-empty graph and d in (0,1), transition_model gives
\* every page a weight: (1-d)/N + d/L to a page p links to and (1-d)/N to any
\* other page when p has L >= 1 links, (1-d)/N + d/N to every page when p is a
\* sink; the weights sum to 1.
C7_TransitionModel ==
    (fn = "sample" /\ pc = "choose" /\ ValidDamping(damping_factor)) =>
        LET d == damping_factor
            N == Cardinality(DOMAIN corpus0)
            links == corpus0[sample_start]
            L == Cardinality(links)
            jump == Norm(d[2] - d[1], d[2] * N)
        IN  /\ DOMAIN next_page_model = DOMAIN corpus0
            /\ \A q \in DOMAIN corpus0 :
                  next_page_model[q] =
                      IF L = 0 THEN Norm(1, N)
                      ELSE IF q \in links THEN RAdd(jump, Norm(d[1], d[2] * L))
                      ELSE jump
            /\ RSum(next_page_model, DOMAIN next_page_model) = One

\* the model of a page that links to some pages and not to others
C7_Witness ==
    /\ fn = "sample" /\ pc = "choose" /\ ValidDamping(damping_factor)
    /\ corpus0[sample_start] # {}
    /\ corpus0[sample_start] # DOMAIN corpus0
    /\ i >= 1

\* the rank the update rule gives page p from the vector `previous`, on the
\* graph the caller passed with every sink linking to every page
C8_Expected(p, previous) ==
    LET d == damping_factor
        N == Cardinality(DOMAIN corpus0)
        out(o) == IF corpus0[o] = {} THEN DOMAIN corpus0 ELSE corpus0[o]
        origins == {o \in DOMAIN corpus0 : p \in out(o)}
        shares == [o \in origins |-> Norm(previous[o][1], previous[o][2] * Cardinality(out(o)))]
    IN  RAdd(Norm(d[2] - d[1], d[2] * N), RMul(d, RSum(shares, origins)))

\* C8: in every pass of iterate_pagerank every new value is
\* (1-d)/N + d * sum over the origins o of p of previous(o)/outdegree(o), with
\* previous the whole vector as it stood when the pass began; the vector read
\* is not written during the pass.
C8_SynchronousUpdate ==
    (fn = "iterate" /\ pc = "page") =>
        /\ pagerank = prev
        /\ \A p \in DOMAIN corpus0 \ todo : pagerank_working[p] = C8_Expected(p, prev)
        /\ \A p \in todo : pagerank_working[p] = prev[p]

\* the end of a later pass in which the ranks still moved
C8_Witness ==
    /\ fn = "iterate" /\ pc = "page" /\ todo = {} /\ rounds >= 1
    /\ \E p \in DOMAIN corpus0 : pagerank_working[p] # prev[p]
    /\ \E p, q \in DOMAIN corpus0 : prev[p] # prev[q]

\* C9: the reverse-link index used in the passes lists every sink of the input
\* graph as an origin of every page, the sink itself included, every origin has
\* at least one outbound link, and no division by zero happens.
C9_SinksAreOrigins ==
    (fn = "iterate" /\ pc # "setup") =>
        /\ \A s \in Sinks0 : \A p \in DOMAIN corpus0 : s \in links_to_page[p]
        /\ \A p \in DOMAIN corpus0 : \A o \in links_to_page[p] : Cardinality(corpus[o]) >= 1
        /\ error # "ZeroDivisionError"

\* a pass over a graph with a sink and a page that is none
C9_Witness ==
    /\ fn = "iterate" /\ pc = "page" /\ todo = {} /\ rounds >= 1
    /\ Sinks0 # {} /\ Sinks0 # DOMAIN corpus0

\* C10: for a non-empty graph and a damping factor in (0,1) the `while True`
\* loop reaches a pass whose maximum change is <= 0.001 and the call returns.
C10_Terminates ==
    (fn = "iterate" /\ DOMAIN corpus0 # {} /\ ValidDamping(damping_factor))
        ~> (status = "returned")

\* a run that needed several passes before it returned
C10_Witness ==
    /\ IterateReturned /\ ValidDamping(damping_factor) /\ rounds >= 2

====
